---- MODULE Spec2Model ----
(***************************************************************************)
(* Model of the message pipeline of bot.py: the crisis-keyword gate        *)
(* (check_crisis_situation), the response generator (get_llm_response),    *)
(* the audio bridge (transcribe_voice_message), the speech bridge          *)
(* (synthesize_speech) and the two handlers that compose them              *)
(* (text_message_handler, voice_message_handler).                          *)
(*                                                                         *)
(* The Application is built without concurrent_updates (bot.py:335), so    *)
(* python-telegram-bot awaits one handler to its end before it dispatches  *)
(* the next update: one handler run is in progress at a time, and the      *)
(* temporary-file storage is what persists from one run to the next.       *)
(*                                                                         *)
(* Texts are sequences of character codes.  Codes 1 and 2 are lowercase    *)
(* letters, codes 3 and 4 their uppercase forms.                           *)
(* Codes above 50 are opaque tokens standing for the fixed literals of     *)
(* the program and for service output.                                     *)
(***************************************************************************)
EXTENDS Integers, Sequences, FiniteSets, TLC

\* ---------------------------------------------------------------- bounds
MaxLen == 3
MaxFiles == 3
MaxSynthLen == 1005

\* ------------------------------------------------------ program constants
TTS_CAP == 1000

\* ------------------------------------------------------------------ texts
\* the alphabet: two letters, each in lowercase and in uppercase
Lowercase == {1, 2}
Uppercase == {3, 4}
Letters == Lowercase \cup Uppercase

RECURSIVE TextsOfLen(_)
TextsOfLen(n) ==
    IF n = 0 THEN {<<>>}
    ELSE {Append(t, c) : t \in TextsOfLen(n - 1), c \in Letters}

\* what a user can type, and what the transcription service can hear
Texts == UNION {TextsOfLen(n) : n \in 0..MaxLen}

\* filters.TEXT lets through only messages that have a text
UserTexts == Texts \ {<<>>}

\* str.lower() on one character, and on a text
LowerChar(c) == IF c \in Uppercase THEN c - Cardinality(Lowercase) ELSE c
Lower(t) == [i \in 1..Len(t) |-> LowerChar(t[i])]

\* Python's `k in t` for strings
IsSubstring(k, t) ==
    \E i \in 0..(Len(t) - Len(k)) : \A j \in 1..Len(k) : t[i + j] = k[j]

\* the lexicon: a fixed list of lowercase phrases of different lengths
crisis_keywords == {<<1, 2>>, <<2, 2, 1>>}

\* mutant: the text is not lowercased before the search
M_check_crisis_situation(text) ==
    \E keyword \in crisis_keywords : IsSubstring(keyword, text)

check_crisis_situation(text) ==
    LET text_lower == Lower(text)
    IN  \E keyword \in crisis_keywords : IsSubstring(keyword, text_lower)

\* ------------------------------------------------------- fixed literals
CRISIS_TEXT == <<101>>
CRISIS_VOICE == <<102>>
NOT_RECOGNIZED == <<103>>
LLM_APOLOGY == <<104>>
HANDLER_APOLOGY == <<105>>
YOU_SAID == <<106>>
MY_ANSWER == <<107>>
ELLIPSIS == <<109, 109, 109>>
CAPTION == <<108>>

\* mutant: the degraded reply leaves the answer out
M_TextOnlyBody(transcript, answer) == YOU_SAID \o transcript

\* the f-string of the text-only degraded reply
TextOnlyBody(transcript, answer) == YOU_SAID \o transcript \o MY_ANSWER \o answer

\* what the completion service can answer, what the synthesis service returns
LLMTexts == {<<51>>, <<52, 51>>}
AudioBlobs == {<<>>, <<61>>}

\* mutant: the comparison with the cap is off by one
M_TtsInput(text) ==
    IF Len(text) >= TTS_CAP THEN SubSeq(text, 1, TTS_CAP) \o ELLIPSIS ELSE text

\* text[:1000] + "..." when len(text) > 1000
TtsInput(text) ==
    IF Len(text) > TTS_CAP THEN SubSeq(text, 1, TTS_CAP) \o ELLIPSIS ELSE text

\* a text of n characters whose characters differ with the position
MkText(n) == [i \in 1..n |-> 70 + (i % 7)]
SynthInputs == {MkText(n) : n \in 0..MaxSynthLen}

TmpNames == 1..MaxFiles
NoPath == 0

\* ------------------------------------------------------------------ state
VARIABLES
    boot,              \* the process: entry point, configuration, start-up phase
    pc,                \* position of the handler run in progress
    kind,              \* "text" | "voice" | "none"
    user_text,         \* update.message.text
    transcribed_text,  \* result of transcribe_voice_message
    crisis,            \* "unset" | "yes" | "no": what check_crisis_situation returned
    llm_response,      \* result of get_llm_response
    audio_content,     \* result of synthesize_speech
    ogg_path, mp3_path,\* the two temporary paths of transcribe_voice_message
    tr_result,         \* value transcribe_voice_message is returning
    unlink_failed,     \* paths whose os.unlink raised in this run
    files,             \* temporary files existing in storage
    calls,             \* calls made for this message, in order
    replies,           \* reply_text / reply_voice calls of this run, in order
    errors,            \* logger.error records of this run
    outcome,           \* "running" | "returned" | "raised"
    state              \* pipeline state of section 4.2

vars == <<boot, pc, kind, user_text, transcribed_text, crisis, llm_response,
          audio_content, ogg_path, mp3_path, tr_result, unlink_failed, files,
          calls, replies, errors, outcome, state>>

Call(op, model, arg, ok, res) ==
    [op |-> op, model |-> model, arg |-> arg, ok |-> ok, res |-> res]

Reply(via, body, ok) == [via |-> via, body |-> body, caption |-> <<>>, ok |-> ok]

\* a process of entry point e that has reached phase ph
Process(e, token, key, ph, registered) ==
    [entry |-> e, token |-> token, key |-> key, phase |-> ph, handlers |-> registered]

\* bot.py started with both variables set, its handlers registered, serving
Serving == Process("bot", TRUE, TRUE, "serving", TRUE)

Init ==
    /\ boot = Serving
    /\ pc = "idle"
    /\ kind = "none"
    /\ user_text = <<>>
    /\ transcribed_text = <<>>
    /\ crisis = "unset"
    /\ llm_response = <<>>
    /\ audio_content = <<>>
    /\ ogg_path = NoPath
    /\ mp3_path = NoPath
    /\ tr_result = <<>>
    /\ unlink_failed = {}
    /\ files = {}
    /\ calls = <<>>
    /\ replies = <<>>
    /\ errors = <<>>
    /\ outcome = "running"
    /\ state = "Idle"

\* a new update is dispatched to its handler
Dispatch(k, text, firstpc) ==
    /\ boot.phase = "serving"
    /\ boot.handlers
    /\ pc = "idle"
    /\ pc' = firstpc
    /\ kind' = k
    /\ user_text' = text
    /\ state' = "Received"
    /\ UNCHANGED <<boot, transcribed_text, crisis, llm_response, audio_content, ogg_path,
                   mp3_path, tr_result, unlink_failed, files, calls, replies,
                   errors, outcome>>

\* the handler run is over: nothing of it is kept but the files it left behind
update_done ==
    /\ pc = "done"
    /\ pc' = "idle"
    /\ kind' = "none"
    /\ user_text' = <<>>
    /\ transcribed_text' = <<>>
    /\ crisis' = "unset"
    /\ llm_response' = <<>>
    /\ audio_content' = <<>>
    /\ ogg_path' = NoPath
    /\ mp3_path' = NoPath
    /\ tr_result' = <<>>
    /\ unlink_failed' = {}
    /\ calls' = <<>>
    /\ replies' = <<>>
    /\ errors' = <<>>
    /\ outcome' = "running"
    /\ state' = "Idle"
    /\ UNCHANGED <<boot, files>>

\* an exception leaves the handler: the application calls error_handler,
\* which logs it and does nothing else
error_handler(tag) ==
    /\ pc' = "done"
    /\ outcome' = "raised"
    /\ errors' = Append(errors, tag)
    /\ state' = "Raised"

\* the handler returns normally in pipeline state s
Return(s) ==
    /\ pc' = "done"
    /\ outcome' = "returned"
    /\ state' = s
    /\ UNCHANGED errors

\* groups of variables an action leaves alone
input == <<kind, user_text>>
bridge == <<ogg_path, mp3_path, tr_result, unlink_failed, files>>

Logged(op, model, arg, ok, res) == calls' = Append(calls, Call(op, model, arg, ok, res))
Sent(via, body, ok) == replies' = Append(replies, Reply(via, body, ok))

\* reply_voice(voice=..., caption=...)
VoiceReply(audio, caption, ok) ==
    [via |-> "reply_voice", body |-> audio, caption |-> caption, ok |-> ok]

\* ------------------------------------------------------- get_llm_response
\* mutant: the text handler passes the lowercased text
M_prompt == IF kind = "text" THEN Lower(user_text) ELSE transcribed_text

\* the argument of get_llm_response at its two call sites
prompt == IF kind = "text" THEN user_text ELSE transcribed_text

\* mutant: the completion call is made again whatever it gave
M_AfterLlm == "llm_primary"

\* where get_llm_response returns to
AfterLlm == IF kind = "text" THEN "t_reply" ELSE "v_action_record"

\* both completion attempts of this run raised
GeneratorFailed ==
    \E i \in 1..Len(calls) :
        calls[i].op = "completion" /\ calls[i].model = "fallback" /\ ~calls[i].ok

\* the primary call: model LLM_MODEL, the user content is the prompt
llm_primary ==
    /\ pc = "llm_primary"
    /\ \/ \E r \in LLMTexts :
            /\ Logged("completion", "primary", prompt, TRUE, r)
            /\ llm_response' = r
            /\ pc' = AfterLlm
            /\ UNCHANGED errors
       \/ /\ Logged("completion", "primary", prompt, FALSE, <<>>)
          /\ errors' = Append(errors, "llm_error")
          /\ pc' = "llm_fallback"
          /\ UNCHANGED llm_response
    /\ UNCHANGED <<boot, input, transcribed_text, crisis, audio_content, bridge,
                   replies, outcome, state>>

\* mutant: the fallback's answer is dropped
M_FallbackResult(ok, r) == LLM_APOLOGY

\* the value get_llm_response returns once the primary call has raised
FallbackResult(ok, r) == IF ok THEN r ELSE LLM_APOLOGY

\* the except branch: one call to gpt-4o, then the fixed apology
llm_fallback ==
    /\ pc = "llm_fallback"
    /\ \/ \E r \in LLMTexts :
            /\ Logged("completion", "fallback", prompt, TRUE, r)
            /\ llm_response' = FallbackResult(TRUE, r)
            /\ UNCHANGED errors
       \/ /\ Logged("completion", "fallback", prompt, FALSE, <<>>)
          /\ errors' = Append(errors, "fallback_error")
          /\ llm_response' = FallbackResult(FALSE, <<>>)
    /\ pc' = AfterLlm
    /\ UNCHANGED <<boot, input, transcribed_text, crisis, audio_content, bridge,
                   replies, outcome, state>>

\* ---------------------------------------------------- text_message_handler
text_receive == \E t \in UserTexts : Dispatch("text", t, "t_check")

Flag(b) == IF b THEN "yes" ELSE "no"

\* the text the text handler hands to the classifier
TextChecked == user_text

\* mutant: the text handler goes on to generation whatever the classifier said
M_TextBranch(c) == "t_typing"

\* the branch on the classifier's result
TextBranch(c) == IF c THEN "t_crisis_reply" ELSE "t_typing"

text_check ==
    /\ pc = "t_check"
    /\ LET c == check_crisis_situation(TextChecked) IN
        /\ crisis' = Flag(c)
        /\ Logged("safety", "", TextChecked, TRUE, <<>>)
        /\ pc' = TextBranch(c)
    /\ state' = "SafetyChecked"
    /\ UNCHANGED <<boot, input, transcribed_text, llm_response, audio_content, bridge,
                   replies, errors, outcome>>

text_crisis_reply ==
    /\ pc = "t_crisis_reply"
    /\ \E ok \in BOOLEAN :
        /\ Sent("reply_text", CRISIS_TEXT, ok)
        /\ IF ok THEN Return("CrisisResponded") ELSE error_handler("Exception")
    /\ UNCHANGED <<boot, input, transcribed_text, crisis, llm_response, audio_content,
                   bridge, calls>>

\* send_chat_action("typing"), outside the try block
text_typing ==
    /\ pc = "t_typing"
    /\ \E ok \in BOOLEAN :
        /\ Logged("chat_action", "", <<>>, ok, <<>>)
        /\ IF ok
           THEN /\ pc' = "llm_primary"
                /\ state' = "Generating"
                /\ UNCHANGED <<errors, outcome>>
           ELSE error_handler("Exception")
    /\ UNCHANGED <<boot, input, transcribed_text, crisis, llm_response, audio_content,
                   bridge, replies>>

\* the body of the reply the text handler sends after generation
TextReplyBody == llm_response

\* reply_text(llm_response) inside the try block
text_reply ==
    /\ pc = "t_reply"
    /\ \E ok \in BOOLEAN :
        /\ Sent("reply_text", TextReplyBody, ok)
        /\ IF ok
           THEN Return(IF GeneratorFailed THEN "Failed" ELSE "Responded")
           ELSE /\ pc' = "t_apology"
                /\ errors' = Append(errors, "text_handler_error")
                /\ UNCHANGED <<outcome, state>>
    /\ UNCHANGED <<boot, input, transcribed_text, crisis, llm_response, audio_content,
                   bridge, calls>>

\* the except branch of the text handler
text_apology ==
    /\ pc = "t_apology"
    /\ \E ok \in BOOLEAN :
        /\ Sent("reply_text", HANDLER_APOLOGY, ok)
        /\ IF ok THEN Return("Failed") ELSE error_handler("Exception")
    /\ UNCHANGED <<boot, input, transcribed_text, crisis, llm_response, audio_content,
                   bridge, calls>>

\* ------------------------------------------------ transcribe_voice_message
pipeline == <<crisis, llm_response, audio_content, replies, outcome, state>>

\* mutant: the except branch returns a text instead of the empty result
M_TrExcept ==
    /\ errors' = Append(errors, "transcription_error")
    /\ tr_result' = <<1>>
    /\ pc' = "tr_finally_ogg"

\* the except branch: log, return "" (the finally block runs next)
TrExcept ==
    /\ errors' = Append(errors, "transcription_error")
    /\ tr_result' = <<>>
    /\ pc' = "tr_finally_ogg"

\* mutant: the temporary file gets a name that may be in use
M_FreshNames == TmpNames

\* the names NamedTemporaryFile can give: it never opens an existing file
FreshNames == TmpNames \ files

\* NamedTemporaryFile(suffix=".ogg", delete=False): a fresh name, or OSError
tr_create_ogg ==
    /\ pc = "tr_ogg"
    /\ \/ \E n \in FreshNames :
            /\ ogg_path' = n
            /\ files' = files \cup {n}
            /\ pc' = "tr_download"
            /\ UNCHANGED <<errors, tr_result>>
       \/ /\ TrExcept
          /\ UNCHANGED <<ogg_path, files>>
    /\ UNCHANGED <<boot, input, transcribed_text, pipeline, mp3_path, unlink_failed, calls>>

\* voice_file.download_to_drive(ogg_path)
tr_download ==
    /\ pc = "tr_download"
    /\ \/ /\ Logged("download", "", <<>>, TRUE, <<>>)
          /\ pc' = "tr_mp3"
          /\ UNCHANGED <<errors, tr_result>>
       \/ /\ Logged("download", "", <<>>, FALSE, <<>>)
          /\ TrExcept
    /\ UNCHANGED <<boot, input, transcribed_text, pipeline, ogg_path, mp3_path,
                   unlink_failed, files>>

\* NamedTemporaryFile(suffix=".mp3", delete=False)
tr_create_mp3 ==
    /\ pc = "tr_mp3"
    /\ \/ \E n \in FreshNames :
            /\ mp3_path' = n
            /\ files' = files \cup {n}
            /\ pc' = "tr_ffmpeg"
            /\ UNCHANGED <<errors, tr_result>>
       \/ /\ TrExcept
          /\ UNCHANGED <<mp3_path, files>>
    /\ UNCHANGED <<boot, input, transcribed_text, pipeline, ogg_path, unlink_failed, calls>>

\* mutant: the exit code is logged but the function goes on
M_AfterCodecError == "tr_stt"

\* where the function goes after `return ""` on a nonzero exit code
AfterCodecError == "tr_finally_ogg"

\* subprocess.run(ffmpeg, timeout=30): exit code 0, nonzero, or TimeoutExpired
tr_ffmpeg ==
    /\ pc = "tr_ffmpeg"
    /\ \/ /\ Logged("codec", "", <<>>, TRUE, <<>>)
          /\ pc' = "tr_stt"
          /\ UNCHANGED <<errors, tr_result>>
       \/ /\ Logged("codec", "nonzero", <<>>, FALSE, <<>>)
          /\ errors' = Append(errors, "ffmpeg_error")
          /\ tr_result' = <<>>
          /\ pc' = AfterCodecError
       \/ /\ Logged("codec", "timeout", <<>>, FALSE, <<>>)
          /\ TrExcept
    /\ UNCHANGED <<boot, input, transcribed_text, pipeline, ogg_path, mp3_path,
                   unlink_failed, files>>

\* CLIENT.audio.transcriptions.create(...): a text (possibly empty) or an error
tr_transcribe ==
    /\ pc = "tr_stt"
    /\ \/ \E t \in Texts :
            /\ Logged("transcription", "", <<>>, TRUE, t)
            /\ tr_result' = t
            /\ pc' = "tr_finally_ogg"
            /\ UNCHANGED errors
       \/ /\ Logged("transcription", "", <<>>, FALSE, <<>>)
          /\ TrExcept
    /\ UNCHANGED <<boot, input, transcribed_text, pipeline, ogg_path, mp3_path,
                   unlink_failed, files>>

\* mutant: an unlink error ends the finally loop
M_AfterFirstUnlink(ok) == IF ok THEN "tr_finally_mp3" ELSE "tr_return"

\* where the finally loop goes after its first path, whether unlink raised or not
AfterFirstUnlink(ok) == "tr_finally_mp3"

\* one turn of the finally loop on path p
Unlink(p, ok) ==
    IF p # NoPath /\ p \in files
    THEN IF ok
         THEN /\ files' = files \ {p}
              /\ UNCHANGED <<errors, unlink_failed>>
         ELSE /\ errors' = Append(errors, "unlink_error")
              /\ unlink_failed' = unlink_failed \cup {p}
              /\ UNCHANGED files
    ELSE UNCHANGED <<files, errors, unlink_failed>>

tr_finally_ogg ==
    /\ pc = "tr_finally_ogg"
    /\ \E ok \in BOOLEAN :
        /\ Unlink(ogg_path, ok)
        /\ pc' = AfterFirstUnlink(ok)
    /\ UNCHANGED <<boot, input, transcribed_text, pipeline, ogg_path, mp3_path,
                   tr_result, calls>>

tr_finally_mp3 ==
    /\ pc = "tr_finally_mp3"
    /\ \E ok \in BOOLEAN : Unlink(mp3_path, ok)
    /\ pc' = "tr_return"
    /\ UNCHANGED <<boot, input, transcribed_text, pipeline, ogg_path, mp3_path,
                   tr_result, calls>>

\* mutant: the voice handler skips the classifier
M_AfterTranscribe_SkipCheck(t) == IF t = <<>> THEN "v_not_recognized" ELSE "v_typing"

\* mutant: the voice handler does not test for an empty transcript
M_AfterTranscribe_NoEmptyTest(t) == "v_check"

\* `if not transcribed_text` in the voice handler
AfterTranscribe(t) == IF t = <<>> THEN "v_not_recognized" ELSE "v_check"

\* the function returns to the voice handler; its locals are gone
tr_return ==
    /\ pc = "tr_return"
    /\ transcribed_text' = tr_result
    /\ pc' = AfterTranscribe(tr_result)
    /\ ogg_path' = NoPath
    /\ mp3_path' = NoPath
    /\ tr_result' = <<>>
    /\ unlink_failed' = {}
    /\ Logged("transcribe_voice_message", "", <<>>, TRUE, tr_result)
    /\ UNCHANGED <<boot, input, pipeline, files, errors>>

\* ------------------------------------------------------- synthesize_speech
\* mutant: the voice handler does not test for empty audio
M_AfterSynth(a) == "v_reply_voice"

\* `if not audio_content` in the voice handler
AfterSynth(a) == IF a = <<>> THEN "v_text_only" ELSE "v_reply_voice"

\* mutant: the transcript is synthesized instead of the answer
M_SynthText == transcribed_text

\* the text the voice handler hands to synthesize_speech
SynthText == llm_response

synthesize_speech ==
    /\ pc = "v_synth"
    /\ \/ \E b \in AudioBlobs :
            /\ Logged("synthesis", "", TtsInput(SynthText), TRUE, b)
            /\ audio_content' = b
            /\ pc' = AfterSynth(b)
            /\ UNCHANGED errors
       \/ /\ Logged("synthesis", "", TtsInput(SynthText), FALSE, <<>>)
          /\ errors' = Append(errors, "synthesis_error")
          /\ audio_content' = <<>>
          /\ pc' = AfterSynth(<<>>)
    /\ UNCHANGED <<boot, input, transcribed_text, crisis, llm_response, bridge,
                   replies, outcome, state>>

\* --------------------------------------------------- voice_message_handler
voice_receive == Dispatch("voice", <<>>, "v_get_file")

\* context.bot.get_file(voice.file_id)
voice_get_file ==
    /\ pc = "v_get_file"
    /\ \E ok \in BOOLEAN :
        /\ Logged("get_file", "", <<>>, ok, <<>>)
        /\ IF ok
           THEN /\ pc' = "v_action_first"
                /\ UNCHANGED <<errors, outcome, state>>
           ELSE error_handler("Exception")
    /\ UNCHANGED <<boot, input, transcribed_text, crisis, llm_response, audio_content,
                   bridge, replies>>

\* send_chat_action("record_audio") before the transcription
voice_action_first ==
    /\ pc = "v_action_first"
    /\ \E ok \in BOOLEAN :
        /\ Logged("chat_action", "", <<>>, ok, <<>>)
        /\ IF ok
           THEN /\ pc' = "tr_ogg"
                /\ state' = "Transcribing"
                /\ UNCHANGED <<errors, outcome>>
           ELSE error_handler("Exception")
    /\ UNCHANGED <<boot, input, transcribed_text, crisis, llm_response, audio_content,
                   bridge, replies>>

voice_not_recognized ==
    /\ pc = "v_not_recognized"
    /\ \E ok \in BOOLEAN :
        /\ Sent("reply_text", NOT_RECOGNIZED, ok)
        /\ IF ok THEN Return("TranscriptionFailed") ELSE error_handler("Exception")
    /\ UNCHANGED <<boot, input, transcribed_text, crisis, llm_response, audio_content,
                   bridge, calls>>

\* the text the voice handler hands to the classifier
VoiceChecked == transcribed_text

\* mutant: the voice handler goes on to generation whatever the classifier said
M_VoiceBranch(c) == "v_typing"

\* the branch on the classifier's result
VoiceBranch(c) == IF c THEN "v_crisis_reply" ELSE "v_typing"

voice_check ==
    /\ pc = "v_check"
    /\ LET c == check_crisis_situation(VoiceChecked) IN
        /\ crisis' = Flag(c)
        /\ Logged("safety", "", VoiceChecked, TRUE, <<>>)
        /\ pc' = VoiceBranch(c)
    /\ state' = "SafetyChecked"
    /\ UNCHANGED <<boot, input, transcribed_text, llm_response, audio_content, bridge,
                   replies, errors, outcome>>

voice_crisis_reply ==
    /\ pc = "v_crisis_reply"
    /\ \E ok \in BOOLEAN :
        /\ Sent("reply_text", CRISIS_VOICE, ok)
        /\ IF ok THEN Return("CrisisResponded") ELSE error_handler("Exception")
    /\ UNCHANGED <<boot, input, transcribed_text, crisis, llm_response, audio_content,
                   bridge, calls>>

\* send_chat_action("typing") before get_llm_response
voice_typing ==
    /\ pc = "v_typing"
    /\ \E ok \in BOOLEAN :
        /\ Logged("chat_action", "", <<>>, ok, <<>>)
        /\ IF ok
           THEN /\ pc' = "llm_primary"
                /\ state' = "Generating"
                /\ UNCHANGED <<errors, outcome>>
           ELSE error_handler("Exception")
    /\ UNCHANGED <<boot, input, transcribed_text, crisis, llm_response, audio_content,
                   bridge, replies>>

\* send_chat_action("record_audio") before synthesize_speech
voice_action_record ==
    /\ pc = "v_action_record"
    /\ \E ok \in BOOLEAN :
        /\ Logged("chat_action", "", <<>>, ok, <<>>)
        /\ IF ok
           THEN /\ pc' = "v_synth"
                /\ state' = "Synthesizing"
                /\ UNCHANGED <<errors, outcome>>
           ELSE error_handler("Exception")
    /\ UNCHANGED <<boot, input, transcribed_text, crisis, llm_response, audio_content,
                   bridge, replies>>

\* the degraded reply when synthesis gave no audio
voice_text_only ==
    /\ pc = "v_text_only"
    /\ \E ok \in BOOLEAN :
        /\ Sent("reply_text", TextOnlyBody(transcribed_text, llm_response), ok)
        /\ IF ok THEN Return("RespondedTextOnly") ELSE error_handler("Exception")
    /\ UNCHANGED <<boot, input, transcribed_text, crisis, llm_response, audio_content,
                   bridge, calls>>

voice_reply_voice ==
    /\ pc = "v_reply_voice"
    /\ \E ok \in BOOLEAN :
        /\ replies' = Append(replies, VoiceReply(audio_content, CAPTION, ok))
        /\ IF ok THEN Return("Responded") ELSE error_handler("Exception")
    /\ UNCHANGED <<boot, input, transcribed_text, crisis, llm_response, audio_content,
                   bridge, calls>>

\* ---------------------------------------------------------- specifications
Next ==
    \/ text_receive
    \/ text_check
    \/ text_crisis_reply
    \/ text_typing
    \/ llm_primary
    \/ llm_fallback
    \/ text_reply
    \/ text_apology
    \/ voice_receive
    \/ voice_get_file
    \/ voice_action_first
    \/ tr_create_ogg
    \/ tr_download
    \/ tr_create_mp3
    \/ tr_ffmpeg
    \/ tr_transcribe
    \/ tr_finally_ogg
    \/ tr_finally_mp3
    \/ tr_return
    \/ voice_not_recognized
    \/ voice_check
    \/ voice_crisis_reply
    \/ voice_typing
    \/ voice_action_record
    \/ synthesize_speech
    \/ voice_text_only
    \/ voice_reply_voice
    \/ update_done

Spec == Init /\ [][Next]_vars

\* the speech bridge alone, on inputs around the cap
InitSynth ==
    /\ boot = Serving
    /\ pc = "v_synth"
    /\ kind = "voice"
    /\ user_text = <<>>
    /\ transcribed_text = <<1>>
    /\ crisis = "no"
    /\ llm_response \in SynthInputs
    /\ audio_content = <<>>
    /\ ogg_path = NoPath
    /\ mp3_path = NoPath
    /\ tr_result = <<1>>
    /\ unlink_failed = {}
    /\ files = {}
    /\ calls = <<>>
    /\ replies = <<>>
    /\ errors = <<>>
    /\ outcome = "running"
    /\ state = "Synthesizing"

NextSynth == synthesize_speech

SpecSynth == InitSynth /\ [][NextSynth]_vars

\* --------------------------------------------------------------- start-up
\* `if not TELEGRAM_TOKEN`: an unset or empty variable
TokenMissing(b) == ~b.token

\* mutant: the credential is not tested
M_KeyMissing(b) == FALSE

\* `if not OPENAI_API_KEY`
KeyMissing(b) == ~b.key

\* bot.py, module level: the token is read and tested, exit(1) without it
boot_check_token ==
    /\ boot.entry = "bot"
    /\ boot.phase = "import"
    /\ boot' = [boot EXCEPT !.phase = IF TokenMissing(boot) THEN "exited" ELSE "check_key"]
    /\ UNCHANGED <<pc, input, transcribed_text, pipeline, bridge, calls, errors>>

\* bot.py, module level: the credential is read and tested, exit(1) without it
boot_check_key ==
    /\ boot.entry = "bot"
    /\ boot.phase = "check_key"
    /\ boot' = [boot EXCEPT !.phase = IF KeyMissing(boot) THEN "exited" ELSE "main"]
    /\ UNCHANGED <<pc, input, transcribed_text, pipeline, bridge, calls, errors>>

\* bot.py, main(): the handlers are registered, then updates are served
boot_main ==
    /\ boot.entry = "bot"
    /\ boot.phase = "main"
    /\ boot' = [boot EXCEPT !.phase = "serving", !.handlers = TRUE]
    /\ UNCHANGED <<pc, input, transcribed_text, pipeline, bridge, calls, errors>>

\* app_webhook.py, main(): TELEGRAM_TOKEN is a name the file never defines, so
\* its first statement raises NameError before any handler is registered
webhook_main ==
    /\ boot.entry = "app_webhook"
    /\ boot.phase = "import"
    /\ boot' = [boot EXCEPT !.phase = "crashed"]
    /\ UNCHANGED <<pc, input, transcribed_text, pipeline, bridge, calls, errors>>

\* a process is started from either entry point, in any configuration
InitStart ==
    /\ boot \in {Process(e, t, k, "import", FALSE) :
                    e \in {"bot", "app_webhook"}, t \in BOOLEAN, k \in BOOLEAN}
    /\ pc = "idle"
    /\ kind = "none"
    /\ user_text = <<>>
    /\ transcribed_text = <<>>
    /\ crisis = "unset"
    /\ llm_response = <<>>
    /\ audio_content = <<>>
    /\ ogg_path = NoPath
    /\ mp3_path = NoPath
    /\ tr_result = <<>>
    /\ unlink_failed = {}
    /\ files = {}
    /\ calls = <<>>
    /\ replies = <<>>
    /\ errors = <<>>
    /\ outcome = "running"
    /\ state = "Idle"

NextStart ==
    \/ boot_check_token
    \/ boot_check_key
    \/ boot_main
    \/ webhook_main
    \/ Next

SpecStart == InitStart /\ [][NextStart]_vars

\* every step of a run is eventually taken: each call returns or fails
FairSpec == Spec /\ WF_vars(Next)

TypeOK ==
    /\ kind \in {"none", "text", "voice"}
    /\ crisis \in {"unset", "yes", "no"}
    /\ outcome \in {"running", "returned", "raised"}
    /\ files \subseteq TmpNames
    /\ ogg_path \in TmpNames \cup {NoPath}
    /\ mp3_path \in TmpNames \cup {NoPath}

\* ------------------------------------------------------------ properties
CallsOf(op) == {i \in 1..Len(calls) : calls[i].op = op}
Count(op) == Cardinality(CallsOf(op))
AllSendsOk == \A i \in 1..Len(replies) : replies[i].ok

\* the text the safety check of this message has to read
DownstreamText == IF kind = "text" THEN user_text ELSE transcribed_text

\* the fixed crisis message of the pipeline in progress
CrisisMessage == IF kind = "text" THEN CRISIS_TEXT ELSE CRISIS_VOICE

\* C1: once the classifier has returned true for the message's text (raw text,
\* or transcript for voice), no completion call is ever issued for the message,
\* the only reply the handler issues is the fixed crisis message of its
\* pipeline, and the handler returns in CrisisResponded with that reply sent.
C1_CrisisShortCircuit ==
    crisis = "yes" =>
        /\ check_crisis_situation(DownstreamText)
        /\ Count("completion") = 0
        /\ Len(replies) <= 1
        /\ \A i \in 1..Len(replies) :
              replies[i].via = "reply_text" /\ replies[i].body = CrisisMessage
        /\ state \in {"SafetyChecked", "CrisisResponded", "Raised"}
        /\ pc = "done" => Len(replies) = 1
        /\ outcome = "returned" =>
              state = "CrisisResponded" /\ replies = <<Reply("reply_text", CrisisMessage, TRUE)>>

C1_Witness ==
    /\ kind = "voice"
    /\ crisis = "yes"
    /\ outcome = "returned"
    /\ replies = <<Reply("reply_text", CRISIS_VOICE, TRUE)>>

\* C2: every completion call and every synthesis call of a message comes after
\* a safety check of that message, and that check read the raw input (text
\* message) or the transcript the audio bridge returned (voice message).
C2_SafetyBeforeGeneration ==
    \A i \in 1..Len(calls) :
        calls[i].op \in {"completion", "synthesis"} =>
            \E j \in 1..(i - 1) :
                /\ calls[j].op = "safety"
                /\ calls[j].arg = DownstreamText
                /\ kind = "voice" =>
                      \E k \in 1..(j - 1) :
                          /\ calls[k].op = "transcribe_voice_message"
                          /\ calls[k].res = calls[j].arg

C2_Witness ==
    /\ kind = "voice"
    /\ Count("completion") = 2
    /\ Count("synthesis") = 1

\* transcribe_voice_message has returned the empty text in this run
TranscriptionReturnedEmpty ==
    \E i \in CallsOf("transcribe_voice_message") : calls[i].res = <<>>

\* C3: once transcription has returned an empty result, no completion call, no
\* safety check and no synthesis call is made for the message, the only reply
\* issued is the fixed "could not understand" text, and the handler returns in
\* TranscriptionFailed with that reply sent.
C3_EmptyTranscriptStops ==
    TranscriptionReturnedEmpty =>
        /\ Count("completion") = 0
        /\ Count("safety") = 0
        /\ Count("synthesis") = 0
        /\ crisis = "unset"
        /\ Len(replies) <= 1
        /\ \A i \in 1..Len(replies) :
              replies[i].via = "reply_text" /\ replies[i].body = NOT_RECOGNIZED
        /\ pc = "done" => Len(replies) = 1
        /\ outcome = "returned" =>
              state = "TranscriptionFailed"
              /\ replies = <<Reply("reply_text", NOT_RECOGNIZED, TRUE)>>

\* the codec ran, the service was called and answered with an empty transcript
C3_Witness ==
    /\ TranscriptionReturnedEmpty
    /\ outcome = "returned"
    /\ \E i \in CallsOf("transcription") : calls[i].ok /\ calls[i].res = <<>>

\* synthesize_speech has returned empty bytes in this run
SynthesisReturnedEmpty == Count("synthesis") = 1 /\ audio_content = <<>>

\* C4: once synthesis has returned empty bytes, no voice reply is issued, the
\* only reply is one text that contains the transcript and the generated
\* reply, the handler returns in RespondedTextOnly, and nothing is raised
\* other than by the sending of that reply itself.
C4_TextOnlyDegradation ==
    (kind = "voice" /\ SynthesisReturnedEmpty) =>
        /\ Len(replies) <= 1
        /\ \A i \in 1..Len(replies) :
              /\ replies[i].via = "reply_text"
              /\ Len(replies[i].body) =
                    Len(YOU_SAID) + Len(transcribed_text) + Len(MY_ANSWER) + Len(llm_response)
              /\ IsSubstring(YOU_SAID \o transcribed_text \o MY_ANSWER, replies[i].body)
              /\ IsSubstring(MY_ANSWER \o llm_response, replies[i].body)
        /\ pc = "done" => Len(replies) = 1
        /\ outcome = "returned" => state = "RespondedTextOnly" /\ AllSendsOk
        /\ outcome = "raised" => ~AllSendsOk

\* the synthesis service itself failed, and the text-only reply went out
C4_Witness ==
    /\ kind = "voice"
    /\ outcome = "returned"
    /\ state = "RespondedTextOnly"
    /\ \E i \in CallsOf("synthesis") : ~calls[i].ok

\* C5: a handler run that an exception has left (the application has called
\* error_handler) has had the generic apology sent to the user, and no run
\* ends with no reply sent.
C5_ExceptionBecomesApology ==
    pc = "done" =>
        /\ outcome = "raised" =>
              \E i \in 1..Len(replies) : replies[i].body = HANDLER_APOLOGY
        /\ \/ \E i \in 1..Len(replies) : replies[i].ok
           \/ \E i \in 1..Len(replies) : replies[i].body = HANDLER_APOLOGY

\* the paths of the temporary files this call created
Created == {ogg_path, mp3_path} \ {NoPath}

\* the result the body of transcribe_voice_message had decided on before the
\* finally block ran: the service's text when the service answered, else ""
PrimaryResult ==
    IF \E i \in CallsOf("transcription") : calls[i].ok
    THEN calls[CHOOSE i \in CallsOf("transcription") : calls[i].ok].res
    ELSE <<>>

UnlinkErrors == {i \in 1..Len(errors) : errors[i] = "unlink_error"}

\* C6 as stated: when transcribe_voice_message returns, neither temporary
\* file it created exists in storage.
C6_NoTempFileLeft ==
    pc = "tr_return" => Created \cap files = {}

\* C6 amended: when transcribe_voice_message returns, each temporary file it
\* created is absent from storage unless the deletion of that very file
\* raised; every such failure is logged, the deletion of the other file was
\* still attempted, and the value returned is the one decided before cleanup.
C6_TempFilesRemovedUnlessUnlinkFails ==
    pc = "tr_return" =>
        /\ Created \cap files = unlink_failed
        /\ Cardinality(UnlinkErrors) = Cardinality(unlink_failed)
        /\ tr_result = PrimaryResult
        /\ outcome = "running"

\* the deletion of the first file failed, the second file was deleted all the
\* same, and the transcript is returned
C6_Witness ==
    /\ pc = "tr_return"
    /\ ogg_path \in files
    /\ mp3_path # NoPath
    /\ mp3_path \notin files
    /\ tr_result # <<>>

\* get_llm_response has returned in this run
LlmReturned == Count("completion") > 0 /\ pc \notin {"llm_primary", "llm_fallback"}

Primary == {i \in CallsOf("completion") : calls[i].model = "primary"}
Fallback == {i \in CallsOf("completion") : calls[i].model = "fallback"}

\* C7: get_llm_response raises nothing and returns the primary model's text if
\* the primary call succeeded, else the secondary model's text if the
\* secondary call succeeded, else the fixed apology; the text handler sends
\* the returned string as its reply, the voice handler hands it to synthesis.
C7_FallbackCascade ==
    LlmReturned =>
        /\ Cardinality(Primary) = 1
        /\ \A i \in Primary :
              IF calls[i].ok
              THEN Fallback = {} /\ llm_response = calls[i].res
              ELSE /\ Cardinality(Fallback) = 1
                   /\ \A j \in Fallback :
                         /\ j = i + 1
                         /\ llm_response = IF calls[j].ok THEN calls[j].res ELSE LLM_APOLOGY
        /\ pc \in {"t_reply", "v_action_record"} => outcome = "running"
        /\ (kind = "text" /\ Len(replies) > 0) =>
              replies[1].via = "reply_text" /\ replies[1].body = llm_response
        /\ \A i \in CallsOf("synthesis") :
              Len(llm_response) <= TTS_CAP => calls[i].arg = llm_response

\* the primary call failed, the secondary call answered, and its text went out
C7_Witness ==
    /\ kind = "text"
    /\ outcome = "returned"
    /\ \E i \in Primary : ~calls[i].ok
    /\ \E j \in Fallback : calls[j].ok /\ replies = <<Reply("reply_text", calls[j].res, TRUE)>>

Upper(c) == IF c \in Lowercase THEN c + Cardinality(Lowercase) ELSE c

\* every way of writing phrase k, each letter in either case
CaseVariants(k) ==
    {v \in [1..Len(k) -> Letters] : \A j \in 1..Len(k) : v[j] \in {k[j], Upper(k[j])}}

\* text t contains a configured phrase, written in some letter case
ContainsPhrase(t) ==
    \E k \in crisis_keywords : \E v \in CaseVariants(k) : IsSubstring(v, t)

\* C8: the classifier answers true for every text that contains one of the
\* configured phrases as a substring, in whatever letter case it is written,
\* and false for every text that contains none; a run asks it once.
C8_ClassifierExact ==
    /\ \A i \in CallsOf("safety") : crisis = Flag(ContainsPhrase(calls[i].arg))
    /\ Count("safety") = 0 => crisis = "unset"
    /\ Count("safety") <= 1

\* a phrase written in mixed case inside a longer text is flagged
C8_Witness ==
    /\ kind = "text"
    /\ crisis = "yes"
    /\ Len(user_text) > 2
    /\ user_text # Lower(user_text)
    /\ ~ \E k \in crisis_keywords : IsSubstring(k, user_text)

\* C9: the text synthesize_speech submits is its input unmodified when the
\* input has at most TTS_CAP characters, and otherwise the first TTS_CAP
\* characters of the input followed by the truncation marker.
C9_Truncation ==
    \A i \in CallsOf("synthesis") :
        LET given == llm_response
            sent == calls[i].arg
        IN  IF Len(given) > TTS_CAP
            THEN /\ Len(sent) = TTS_CAP + Len(ELLIPSIS)
                 /\ \A j \in 1..TTS_CAP : sent[j] = given[j]
                 /\ \A j \in 1..Len(ELLIPSIS) : sent[TTS_CAP + j] = ELLIPSIS[j]
            ELSE sent = given

\* an input longer than the cap was submitted, cut
C9_Witness ==
    /\ Count("synthesis") = 1
    /\ Len(llm_response) > TTS_CAP
    /\ Len(calls[1].arg) < Len(llm_response)

\* a text handler run of a non-crisis message that returned, all sends delivered
NonCrisisTextDone ==
    kind = "text" /\ crisis = "no" /\ outcome = "returned" /\ AllSendsOk

\* C10 as stated: for a non-crisis text message the completion service is
\* called once, with that text as the user content, and the string it returns
\* is the reply, verbatim, in Responded.
C10_OneCallVerbatim ==
    NonCrisisTextDone =>
        /\ Count("completion") = 1
        /\ \A i \in CallsOf("completion") :
              /\ calls[i].arg = user_text
              /\ replies = <<Reply("reply_text", calls[i].res, TRUE)>>
        /\ state = "Responded"

\* C10 amended: for a non-crisis text message every completion call carries
\* exactly that text as the user content; there is one call when the primary
\* model answers and a second one, to the fallback model, when it does not;
\* the first reply issued is the string get_llm_response returned, verbatim:
\* the answering model's text in Responded, the fixed apology in Failed.
C10_CascadeVerbatim ==
    (kind = "text" /\ crisis = "no") =>
        /\ \A i \in CallsOf("completion") : calls[i].arg = user_text
        /\ Count("completion") <= 2
        /\ \A i \in CallsOf("completion") :
              calls[i].ok => i = Len(calls) /\ llm_response = calls[i].res
        /\ Len(replies) > 0 =>
              /\ Count("completion") = (IF \E i \in Primary : calls[i].ok THEN 1 ELSE 2)
              /\ replies[1] = Reply("reply_text", llm_response, replies[1].ok)
        /\ NonCrisisTextDone =>
              /\ replies = <<Reply("reply_text", llm_response, TRUE)>>
              /\ IF \E i \in CallsOf("completion") : calls[i].ok
                 THEN state = "Responded" /\ llm_response \in LLMTexts
                 ELSE state = "Failed" /\ llm_response = LLM_APOLOGY

\* a text in uppercase went to the fallback model unchanged, whose answer went out
C10_Witness ==
    /\ NonCrisisTextDone
    /\ user_text # Lower(user_text)
    /\ Count("completion") = 2
    /\ state = "Responded"

\* the terminal states section 4.2 gives each pipeline
TerminalStates(k) ==
    IF k = "text"
    THEN {"CrisisResponded", "Responded", "Failed"}
    ELSE {"TranscriptionFailed", "CrisisResponded", "Responded", "RespondedTextOnly"}

\* C11: a handler run that has stopped has stopped in one of the terminal
\* states of its pipeline.
C11_EndsInTerminalState ==
    pc = "done" => state \in TerminalStates(kind)

\* every run that has started comes to its end: none loops, none hangs
C11_Terminates == (pc \notin {"idle", "done"}) ~> (pc = "done")

\* the text get_llm_response returns, read off the calls of this run
CascadeResult ==
    IF \E i \in CallsOf("completion") : calls[i].ok
    THEN calls[CHOOSE i \in CallsOf("completion") : calls[i].ok].res
    ELSE LLM_APOLOGY

\* what transcribe_voice_message returned in this run
ReturnedTranscript ==
    calls[CHOOSE i \in CallsOf("transcribe_voice_message") : TRUE].res

\* the audio the synthesis service gave in this run, empty if it failed
SynthesizedAudio ==
    LET i == CHOOSE j \in CallsOf("synthesis") : TRUE
    IN  IF calls[i].ok THEN calls[i].res ELSE <<>>

\* the one reply of a run, as a function of the message's own content and of
\* the answers to the run's own calls
ExpectedReply ==
    IF kind = "text"
    THEN IF ContainsPhrase(user_text)
         THEN Reply("reply_text", CRISIS_TEXT, TRUE)
         ELSE Reply("reply_text", CascadeResult, TRUE)
    ELSE IF ReturnedTranscript = <<>>
         THEN Reply("reply_text", NOT_RECOGNIZED, TRUE)
         ELSE IF ContainsPhrase(ReturnedTranscript)
              THEN Reply("reply_text", CRISIS_VOICE, TRUE)
              ELSE IF SynthesizedAudio = <<>>
                   THEN Reply("reply_text",
                              YOU_SAID \o ReturnedTranscript \o MY_ANSWER \o CascadeResult,
                              TRUE)
                   ELSE VoiceReply(SynthesizedAudio, CAPTION, TRUE)

\* nothing of an earlier run is left when the next update is dispatched
NoResidue ==
    pc = "idle" =>
        /\ calls = <<>> /\ replies = <<>> /\ errors = <<>>
        /\ transcribed_text = <<>> /\ llm_response = <<>> /\ audio_content = <<>>
        /\ crisis = "unset" /\ tr_result = <<>>
        /\ ogg_path = NoPath /\ mp3_path = NoPath /\ unlink_failed = {}

\* a run that returned with its sends delivered sent exactly ExpectedReply
OwnInputsDecide ==
    (outcome = "returned" /\ AllSendsOk) => replies = <<ExpectedReply>>

\* a temporary file is created under a name no existing file has, and the
\* only files a step removes are the two this call created
OwnFilesOnly ==
    /\ (ogg_path' # ogg_path /\ ogg_path' # NoPath) => ogg_path' \notin files
    /\ (mp3_path' # mp3_path /\ mp3_path' # NoPath) => mp3_path' \notin files
    /\ \A f \in files \ files' : f \in Created

\* C12: runs share no mutable state: a run starts with nothing left of the
\* runs before it, its reply is decided by its own message and the answers to
\* its own calls, and its audio bridge neither takes over nor deletes a
\* temporary file that is not its own.
C12_NoCrossMessageState ==
    /\ [](NoResidue /\ OwnInputsDecide)
    /\ [][OwnFilesOnly]_vars

\* a file an earlier run could not delete is still there after a later run's
\* bridge has created and deleted both of its own files
C12_Witness ==
    /\ pc = "tr_return"
    /\ ogg_path # NoPath
    /\ mp3_path # NoPath
    /\ Created \cap files = {}
    /\ files # {}

\* C13: a process started without the platform token or without the
\* completion-service credential never registers a handler and never handles
\* a message, whichever entry point started it.
C13_RefusesToStart ==
    (~boot.token \/ ~boot.key) =>
        /\ boot.phase \in {"import", "check_key", "exited", "crashed"}
        /\ ~boot.handlers
        /\ pc = "idle"
        /\ calls = <<>>
        /\ replies = <<>>

\* bot.py, token set, credential missing: the process has exited
C13_Witness ==
    /\ boot.entry = "bot"
    /\ boot.token
    /\ ~boot.key
    /\ boot.phase = "exited"

\* C14: a message has at most two completion calls, one to the primary model
\* and one to the fallback model that directly follows a failed primary call,
\* and at most one download, one codec run, one transcription call and one
\* synthesis call.
C14_BoundedCalls ==
    /\ Cardinality(Primary) <= 1
    /\ Cardinality(Fallback) <= 1
    /\ Count("completion") = Cardinality(Primary) + Cardinality(Fallback)
    /\ \A j \in Fallback : (j - 1) \in Primary /\ ~calls[j - 1].ok
    /\ \A op \in {"download", "codec", "transcription", "synthesis"} : Count(op) <= 1

\* a voice message that used every external call, the fallback included
C14_Witness ==
    /\ Count("download") = 1
    /\ Count("codec") = 1
    /\ Count("transcription") = 1
    /\ Cardinality(Fallback) = 1
    /\ Count("synthesis") = 1

CodecFailed == \E i \in CallsOf("codec") : ~calls[i].ok

\* C15: once the codec has exited with a nonzero code or run out of time, the
\* transcription service is not called for the message and the function
\* returns the empty result.
C15_CodecFailureSkipsTranscription ==
    CodecFailed =>
        /\ Count("transcription") = 0
        /\ tr_result = <<>>
        /\ transcribed_text = <<>>
        /\ \A i \in CallsOf("transcribe_voice_message") : calls[i].res = <<>>
        /\ pc \in {"tr_finally_ogg", "tr_finally_mp3", "tr_return", "v_not_recognized", "done"}

\* the codec exited with a nonzero code and the function has returned ""
C15_Witness ==
    /\ \E i \in CallsOf("codec") : calls[i].model = "nonzero"
    /\ TranscriptionReturnedEmpty
    /\ pc = "v_not_recognized"

\* the exception that ended this run came from a call to the platform
RaisedByPlatform ==
    \/ /\ calls # <<>>
       /\ calls[Len(calls)].op \in {"get_file", "chat_action"}
       /\ ~calls[Len(calls)].ok
    \/ /\ replies # <<>>
       /\ ~replies[Len(replies)].ok

\* C16: a failed transcription call leaves the run running and makes
\* transcribe_voice_message return the empty text; a failed synthesis call
\* leaves the run running and makes synthesize_speech return empty bytes; an
\* exception that ends a run never comes from either bridge.
C16_BridgesAbsorbFailures ==
    /\ (\E i \in CallsOf("transcription") : ~calls[i].ok) =>
          /\ tr_result = <<>>
          /\ transcribed_text = <<>>
          /\ \A i \in CallsOf("transcribe_voice_message") : calls[i].res = <<>>
          /\ pc \in {"tr_finally_ogg", "tr_finally_mp3", "tr_return", "v_not_recognized"}
                => outcome = "running"
    /\ (\E i \in CallsOf("synthesis") : ~calls[i].ok) =>
          /\ audio_content = <<>>
          /\ pc \in {"v_text_only", "done"}
          /\ pc = "v_text_only" => outcome = "running"
    /\ outcome = "raised" => RaisedByPlatform

\* the transcription service failed and the handler went on to its reply
C16_Witness ==
    /\ \E i \in CallsOf("transcription") : ~calls[i].ok
    /\ state = "TranscriptionFailed"
    /\ outcome = "returned"

\* the place of a step in the voice pipeline
Rank(op) ==
    CASE op = "transcription" -> 1
      [] op = "transcribe_voice_message" -> 2
      [] op = "safety" -> 3
      [] op = "completion" -> 4
      [] op = "synthesis" -> 5
      [] OTHER -> 0

\* C17: in a voice run transcription, safety check, generation and synthesis
\* happen in that order, each after the one before it has finished, and each
\* reads what the one before it produced: the check and the generation read
\* the returned transcript, the synthesis reads the generated text.
C17_VoiceStepsInOrder ==
    kind = "voice" =>
        /\ \A i, j \in 1..Len(calls) :
              (Rank(calls[i].op) > 0 /\ Rank(calls[i].op) < Rank(calls[j].op)) => i < j
        /\ \A i \in CallsOf("safety") :
              /\ Count("transcribe_voice_message") = 1
              /\ calls[i].arg = ReturnedTranscript
              /\ ReturnedTranscript # <<>>
        /\ \A i \in CallsOf("completion") :
              /\ Count("safety") = 1
              /\ crisis = "no"
              /\ calls[i].arg = ReturnedTranscript
        /\ \A i \in CallsOf("synthesis") :
              /\ Count("completion") > 0
              /\ pc \notin {"llm_primary", "llm_fallback"}
              /\ Len(CascadeResult) <= TTS_CAP => calls[i].arg = CascadeResult

\* a voice run that went through all four steps and sent its voice reply
C17_Witness ==
    /\ kind = "voice"
    /\ state = "Responded"
    /\ Count("transcription") = 1
    /\ Count("safety") = 1
    /\ Count("completion") = 1
    /\ Count("synthesis") = 1

Delivered == {i \in 1..Len(replies) : replies[i].ok}

\* the reply that goes with terminal state st
ReplyOf(st) ==
    CASE st = "CrisisResponded" -> Reply("reply_text", CrisisMessage, TRUE)
      [] st = "TranscriptionFailed" -> Reply("reply_text", NOT_RECOGNIZED, TRUE)
      [] st = "RespondedTextOnly" ->
            Reply("reply_text",
                  YOU_SAID \o transcribed_text \o MY_ANSWER \o llm_response, TRUE)
      [] st = "Responded" /\ kind = "voice" -> VoiceReply(audio_content, CAPTION, TRUE)
      [] st = "Responded" /\ kind = "text" -> Reply("reply_text", llm_response, TRUE)
      [] OTHER -> Reply("reply_text", LLM_APOLOGY, TRUE)

\* C18: no run has two replies delivered; a run that returns has exactly one;
\* and in a run that no exception touched that reply is the one its terminal
\* state names: the crisis text, the generator's text, the "could not
\* understand" text, the voice reply with its caption, or the text holding
\* transcript and answer.
C18_OneReplyPerRun ==
    /\ Cardinality(Delivered) <= 1
    /\ outcome = "returned" => Cardinality(Delivered) = 1
    /\ (outcome = "returned" /\ AllSendsOk) =>
          /\ replies = <<ReplyOf(state)>>
          /\ state \in TerminalStates(kind)
          /\ (state = "Responded" /\ kind = "text") => llm_response \in LLMTexts
          /\ (state = "Responded" /\ kind = "voice") => audio_content # <<>>

\* the degraded text-only reply, alone
C18_Witness ==
    /\ outcome = "returned"
    /\ state = "RespondedTextOnly"
    /\ Len(replies) = 1
    /\ replies[1].body = YOU_SAID \o transcribed_text \o MY_ANSWER \o llm_response

\* C19: every synthesis call belongs to a voice run whose transcript was not
\* empty, comes after a safety check that returned false and after
\* get_llm_response has returned, and carries the text get_llm_response
\* returned, the fixed apology included.
C19_SynthesisOnlyAfterGeneration ==
    /\ (kind = "text" \/ crisis = "yes" \/ TranscriptionReturnedEmpty) =>
          Count("synthesis") = 0
    /\ \A i \in CallsOf("synthesis") :
          /\ kind = "voice"
          /\ crisis = "no"
          /\ \E j \in 1..(i - 1) : calls[j].op = "safety"
          /\ \E j \in 1..(i - 1) : calls[j].op = "completion"
          /\ \A j \in CallsOf("completion") : j < i
          /\ llm_response = CascadeResult
          /\ Len(llm_response) <= TTS_CAP => calls[i].arg = llm_response

\* both completion calls failed and the apology went to synthesis
C19_Witness ==
    \E i \in CallsOf("synthesis") :
        /\ calls[i].arg = LLM_APOLOGY
        /\ Count("completion") = 2

====
